---- MODULE Spec2Model ----
(***************************************************************************)
(* DatToNcConverter (src/station_reconstruct/dat_to_nc.py): the pipeline   *)
(* extract -> transform -> load that turns minute-resolution .dat station  *)
(* logs into an hourly NetCDF file, and the back-conversion                *)
(* transform_df_to_tas.                                                    *)
(*                                                                         *)
(* Numbers.  A float is modelled as a fixed-point integer with FracDigits  *)
(* decimal digits (20.00 degrees is 20 * 10^FracDigits).  A result that is *)
(* not representable (a mean) is rounded to the nearest representable      *)
(* value, ties to even, as IEEE arithmetic does at its own resolution.     *)
(* NaN is one integer outside the range of every value.                    *)
(*                                                                         *)
(* Time.  datetime(year, mon, day, hour, min) is modelled as the pair      *)
(* (hour, min) where hour counts calendar hours from an epoch.             *)
(*                                                                         *)
(* Tables.  A pandas DataFrame is [columns, rows]: rows is a sequence of   *)
(* [time, val], val a function from the column names to the cell values.   *)
(***************************************************************************)
EXTENDS Integers, Sequences, FiniteSets, TLC

\* ---------------------------------------------------------------- bounds
FracDigits == 3     \* decimal digits of the fixed-point model of a float
MaxHour == 2        \* readings lie in the calendar hours 0..MaxHour
MaxRows == 3        \* readings in all .dat files of a scalar-mode run together
GridRows == 2       \* readings in all .dat files of a grid-mode run together
MaxFiles == 2       \* .dat files in the station directory
ExecRows == 1       \* readings of a run started from InitExec

\* ------------------------------------------------------------ arithmetic
RECURSIVE Pow10(_)
Pow10(n) == IF n = 0 THEN 1 ELSE 10 * Pow10(n - 1)

\* the decimal number i.ff (two decimals) as a fixed-point value
Dec(i, ff) == i * Pow10(FracDigits) + ff * Pow10(FracDigits - 2)

NaN == 0 - Pow10(FracDigits + 4)

Abs(x) == IF x < 0 THEN 0 - x ELSE x

\* a / b rounded to the nearest integer, ties to even (b > 0)
RoundDiv(a, b) ==
    LET q == a \div b
        r == a % b
    IN  IF 2 * r < b THEN q
        ELSE IF 2 * r > b THEN q + 1
        ELSE IF q % 2 = 0 THEN q ELSE q + 1

RECURSIVE SeqSum(_)
SeqSum(s) == IF s = <<>> THEN 0 ELSE Head(s) + SeqSum(Tail(s))

\* ------------------------------------------------------ program constants
tas_sensor == "mcp9808"
digit_precision == 2
GridSize == 8
KelvinOffset == Dec(273, 15)
Sentinel == 0 - Dec(999, 99)

\* mapping_rule: minute of the hour -> (row, col) of the 8x8 grid; the table
\* of station_reconstruct/map_minutes_to_grid.py, one cell per minute
mapping_rule[minute \in 0..59] == <<minute \div GridSize, minute % GridSize>>

Cells == (0..(GridSize - 1)) \X (0..(GridSize - 1))

\* --------------------------------------------------------------- inputs
\* Scalar mode never reads the minute of a reading and aggregates on three
\* or more distinct values; grid mode places by the minute and copies values.
Minutes(scalar) == IF scalar THEN {0} ELSE {0, 30}
Temps(scalar) ==
    IF scalar THEN {Sentinel, Dec(20, 0), Dec(21, 0), Dec(22, 1)}
    ELSE {Sentinel, Dec(20, 0), Dec(22, 1)}
Lights == {Dec(5, 0)}

\* one line of a .dat file: year mon day hour min and the sensor columns
Readings(scalar) ==
    [hour : 0..MaxHour, min : Minutes(scalar), mcp9808 : Temps(scalar),
     vis_light : Lights]

TimeOf(r) == r.hour * 60 + r.min

\* the .dat files of n lines whose first line is not before the time `from`:
\* a logger writes its lines in time order, and get_files() sorts the files
\* by name, which for dated file names is their order in time
RECURSIVE DatFiles(_, _, _)
DatFiles(n, scalar, from) ==
    IF n = 0 THEN {<<>>}
    ELSE UNION { { Append(f, r) :
                     r \in {x \in Readings(scalar) :
                              /\ from <= TimeOf(x)
                              /\ f = <<>> \/ TimeOf(f[Len(f)]) <= TimeOf(x)} }
                 : f \in DatFiles(n - 1, scalar, from) }

VARIABLES
    hourly,             \* self.hourly
    grid_blueprint,     \* self.grid_blueprint: "None" or a path
    keep_original,      \* self.keep_original
    meta_data,          \* self.meta_data: the set of keys extract_meta_data found
    files,              \* len(self.files): the .dat files get_files() listed
    dataframe,          \* self.dataframe (None while pc = "init", held as the
                        \* empty frame)
    original_df,        \* self.original_df (None unless keep_original, held
                        \* as the empty frame)
    pc,                 \* position of the caller: init, extracting, extracted,
                        \* transformed, loaded, exported, failed
    err,                \* the exception that ended the run, "none" if none
    nread,              \* files read so far by the loop of extract()
    quota,              \* readings the directory still holds
    raw,                \* the lines of the file read last (read_csv's result)
    df,                 \* resample_to_hourly_steps' df after line 148
    hourly_df,          \* the table resample_to_hourly_steps returned last
    hourly_temp_arrays, \* the grids built by the last call, in order
    all_hours,          \* the calendar hours of every reading read so far
    outfile,            \* the file at save_to_path: absent, old, new
    tas_arg,            \* the argument of transform_df_to_tas, once called
    tas_df              \* the table transform_df_to_tas returned, once it did

vars == <<hourly, grid_blueprint, keep_original, meta_data, files, dataframe,
          original_df, pc, err, nread, quota, raw, df, hourly_df,
          hourly_temp_arrays, all_hours, outfile, tas_arg, tas_df>>

\* pd.DataFrame(): no column, no row.  kind tells what the cells of a column
\* hold: "float" (a number or NaN) or "array" (an 8x8 array)
EmptyFrame == [columns |-> {}, kind |-> [c \in {} |-> "float"], rows |-> <<>>]

\* ------------------------------------------- resample_to_hourly_steps
\* line 138: df.replace(-999.99, np.nan)
Normalise(v) == IF v = Sentinel THEN NaN ELSE v

\* the non-missing values of a series, in order
Valid(series) == SelectSeq(series, LAMBDA v : v # NaN)

\* Series.mean / np.mean of a Series: the mean of the non-missing values,
\* NaN when there is none
NanMean(series) ==
    LET xs == Valid(series)
    IN  IF xs = <<>> THEN NaN ELSE RoundDiv(SeqSum(xs), Len(xs))

\* the conversion with the offset of 0 degrees Celsius mistyped as 273.51
C_to_K_mistyped(c) == IF c = NaN THEN NaN ELSE c + Dec(273, 51)

\* line 148: df["tas"] + 273.15
C_to_K(c) == IF c = NaN THEN NaN ELSE c + KelvinOffset

\* lines 133-148: the datetime index, the sentinel replaced, the tas column
WorkingRow(r) ==
    LET m == Normalise(r.mcp9808)
    IN  [hour |-> r.hour, min |-> r.min, mcp9808 |-> m,
         vis_light |-> Normalise(r.vis_light),
         tas |-> C_to_K(NanMean(<<m>>))]

WorkingFrame(f) == [i \in 1..Len(f) |-> WorkingRow(f[i])]

DataColumns == {"mcp9808", "vis_light", "tas"}

\* df.resample("h") sorts the index with a stable sort before it bins it
RECURSIVE InsertByTime(_, _)
InsertByTime(s, r) ==
    IF s = <<>> THEN <<r>>
    ELSE IF TimeOf(s[Len(s)]) <= TimeOf(r) THEN Append(s, r)
    ELSE Append(InsertByTime(SubSeq(s, 1, Len(s) - 1), r), s[Len(s)])

RECURSIVE SortByTime(_)
SortByTime(s) ==
    IF s = <<>> THEN <<>>
    ELSE InsertByTime(SortByTime(SubSeq(s, 1, Len(s) - 1)), s[Len(s)])

\* the hourly bins of resample("h"): every hour from the first to the last
Bins(d) ==
    LET s == SortByTime(d)
    IN  IF s = <<>> THEN <<>>
        ELSE [k \in 1..(s[Len(s)].hour - s[1].hour + 1) |-> s[1].hour + k - 1]

\* hour_data: the rows of one bin
HourData(d, h) == SelectSeq(SortByTime(d), LAMBDA r : r.hour = h)

Column(rows, c) == [i \in 1..Len(rows) |-> rows[i][c]]

\* Series.nunique(): the distinct values, NaN not counted
nunique(series) == Cardinality({series[i] : i \in {j \in 1..Len(series) : series[j] # NaN}})

\* the rule the comment of line 152 describes: NaN only when all values are
\* the same or missing
custom_aggregation_all_same(series) ==
    IF nunique(series) <= 1 THEN NaN ELSE NanMean(series)

\* lines 151-156
custom_aggregation(series) ==
    IF nunique(series) <= 2 THEN NaN ELSE NanMean(series)

\* line 160: df.resample("h").apply(custom_aggregation)
ScalarResample(d) ==
    LET bins == Bins(d)
    IN  [columns |-> DataColumns,
         kind |-> [c \in DataColumns |-> "float"],
         rows |-> [k \in 1..Len(bins) |->
                     [time |-> bins[k],
                      val |-> [c \in DataColumns |->
                                 custom_aggregation(Column(HourData(d, bins[k]), c))]]]]

\* line 166: np.nan * np.zeros((8, 8))
EmptyGrid == [cell \in Cells |-> NaN]

\* placement that keeps the first reading of a cell
RECURSIVE PlaceFirst(_, _)
PlaceFirst(grid, rows) ==
    IF rows = <<>> THEN grid
    ELSE PlaceFirst(IF grid[mapping_rule[Head(rows).min]] = NaN
                    THEN [grid EXCEPT ![mapping_rule[Head(rows).min]] = Head(rows).tas]
                    ELSE grid,
                    Tail(rows))

\* lines 168-170: the readings of the hour placed one after the other
RECURSIVE Place(_, _)
Place(grid, rows) ==
    IF rows = <<>> THEN grid
    ELSE Place([grid EXCEPT ![mapping_rule[Head(rows).min]] = Head(rows).tas],
               Tail(rows))

\* lines 166-170: hourly_temp_array of one hour
hourly_temp_array(d, h) == Place(EmptyGrid, HourData(d, h))

\* line 172: hourly_df.loc[hour, 'temp'] = hourly_temp_array adds the row
\* `hour` to a frame created with the one column tas (line 163) and writes
\* the array to the column temp: the row's tas is NaN
GridRow(d, h) == [time |-> h, val |-> [c \in {"tas", "temp"} |->
                    IF c = "temp" THEN hourly_temp_array(d, h) ELSE NaN]]

GridResample(d) ==
    LET bins == Bins(d)
    IN  [columns |-> {"tas", "temp"},
         kind |-> [c \in {"tas", "temp"} |-> IF c = "temp" THEN "array" ELSE "float"],
         rows |-> [k \in 1..Len(bins) |-> GridRow(d, bins[k])]]

\* ---------------------------------------------------------------- extract
\* line 70: pd.concat([self.dataframe, df]); a column one frame lacks is NaN
Widen(row, cols) ==
    [time |-> row.time,
     val |-> [c \in cols |-> IF c \in DOMAIN row.val THEN row.val[c] ELSE NaN]]

Concat(a, b) ==
    LET cols == a.columns \cup b.columns
    IN  [columns |-> cols,
         kind |-> [c \in cols |-> IF c \in b.columns THEN b.kind[c] ELSE a.kind[c]],
         rows |-> [i \in 1..Len(a.rows) |-> Widen(a.rows[i], cols)]
                  \o [i \in 1..Len(b.rows) |-> Widen(b.rows[i], cols)]]

Configs ==
    [hourly : BOOLEAN, grid_blueprint : {"None", "blueprint.nc"},
     keep_original : BOOLEAN,
     meta_data : {{}, {"elevation"}, {"latitude", "longitude"},
                  {"latitude", "longitude", "elevation"}},
     outfile : {"absent", "old"}]

\* the state after __init__ (lines 30-43)
Constructed(cfg, rows) ==
    /\ hourly = cfg.hourly
    /\ grid_blueprint = cfg.grid_blueprint
    /\ keep_original = cfg.keep_original
    /\ meta_data = cfg.meta_data
    /\ outfile = cfg.outfile
    /\ quota = rows
    /\ files \in {n \in 0..MaxFiles : n <= rows}
    /\ dataframe = EmptyFrame
    /\ original_df = EmptyFrame
    /\ pc = "init"
    /\ err = "none"
    /\ nread = 0
    /\ raw = <<>>
    /\ df = <<>>
    /\ hourly_df = EmptyFrame
    /\ hourly_temp_arrays = <<>>
    /\ all_hours = {}
    /\ tas_arg = EmptyFrame
    /\ tas_df = EmptyFrame

\* a station with complete metadata and a grid blueprint, any data
Init ==
    \E cfg \in {c \in Configs : /\ c.grid_blueprint = "blueprint.nc"
                                /\ c.meta_data = {"latitude", "longitude", "elevation"}
                                /\ c.outfile = "absent"} :
        Constructed(cfg, IF cfg.hourly THEN MaxRows ELSE GridRows)

\* any configuration, little data
InitExec ==
    \E cfg \in {c \in Configs : ~c.keep_original} : Constructed(cfg, ExecRows)

\* lines 117-123 of extract(), and its return when there is no file
extract_begin ==
    /\ pc = "init"
    /\ dataframe' = EmptyFrame
    /\ original_df' = IF keep_original THEN EmptyFrame ELSE original_df
    /\ nread' = 0
    /\ pc' = IF files = 0 THEN "extracted" ELSE "extracting"
    /\ UNCHANGED <<hourly, grid_blueprint, keep_original, meta_data, files, err,
                   quota, raw, df, hourly_df, hourly_temp_arrays, all_hours,
                   outfile, tas_arg, tas_df>>

\* one turn of the loop of extract() (lines 124-126): convert_to_dataframe
\* reads the next file and resamples it, append_to_dataframes appends the
\* result.  In grid mode the assignment of line 172 writes a two-dimensional
\* array to one cell as it enlarges the frame, which pandas may refuse with a
\* ValueError: `stored` is the number of hours stored before it does.
extract_file ==
    /\ pc = "extracting"
    /\ nread < files
    /\ \E n \in 1..(quota - (files - nread - 1)) : \E f \in DatFiles(n, hourly, IF raw = <<>> THEN 0 ELSE TimeOf(raw[Len(raw)])) :
         LET d == WorkingFrame(f)
             bins == Bins(d)
         IN  /\ raw' = f
             /\ df' = d
             /\ quota' = quota - n
             /\ all_hours' = all_hours \cup {f[i].hour : i \in 1..Len(f)}
             /\ IF hourly
                THEN /\ hourly_df' = ScalarResample(d)
                     /\ hourly_temp_arrays' = <<>>
                     /\ dataframe' = Concat(dataframe, hourly_df')
                     /\ nread' = nread + 1
                     /\ pc' = IF nread + 1 = files THEN "extracted" ELSE "extracting"
                     /\ err' = err
                ELSE \E stored \in 0..Len(bins) :
                     LET built == IF stored = Len(bins) THEN stored ELSE stored + 1
                     IN  /\ hourly_temp_arrays' =
                              [k \in 1..built |->
                                 [time |-> bins[k], grid |-> hourly_temp_array(d, bins[k])]]
                         /\ IF stored = Len(bins)
                            THEN /\ hourly_df' = GridResample(d)
                                 /\ dataframe' = Concat(dataframe, hourly_df')
                                 /\ nread' = nread + 1
                                 /\ pc' = IF nread + 1 = files
                                          THEN "extracted" ELSE "extracting"
                                 /\ err' = err
                            ELSE /\ hourly_df' = EmptyFrame
                                 /\ dataframe' = dataframe
                                 /\ nread' = nread
                                 /\ pc' = "failed"
                                 /\ err' = "ValueError"
    /\ UNCHANGED <<hourly, grid_blueprint, keep_original, meta_data, files,
                   original_df, outfile, tas_arg, tas_df>>

\* -------------------------------------------------------------- transform
\* lines 182-187: the canonical columns and the names they are renamed to
mapping == [c \in {"tas", "vis_light", "uv_light", "ir_light"} |-> c]

\* line 193: self.dataframe[intersect_columns]
Project(t, cols) ==
    [columns |-> cols,
     kind |-> [c \in cols |-> t.kind[c]],
     rows |-> [i \in 1..Len(t.rows) |->
                 [time |-> t.rows[i].time, val |-> [c \in cols |-> t.rows[i].val[c]]]]]

\* dropna() without the subset: a row goes when any of its cells is NaN
dropna_any(t, col) ==
    [t EXCEPT !.rows = SelectSeq(t.rows,
                                 LAMBDA row : \A c \in t.columns : row.val[c] # NaN)]

\* line 196: dropna(subset=[col])
dropna(t, col) ==
    [t EXCEPT !.rows = SelectSeq(t.rows, LAMBDA row : row.val[col] # NaN)]

\* line 199: rename(columns = m)
Rename(t, m) ==
    LET to(c) == IF c \in DOMAIN m THEN m[c] ELSE c
        cols == {to(c) : c \in t.columns}
        from(n) == CHOOSE c \in t.columns : to(c) = n
    IN  [columns |-> cols,
         kind |-> [n \in cols |-> t.kind[from(n)]],
         rows |-> [i \in 1..Len(t.rows) |->
                     [time |-> t.rows[i].time,
                      val |-> [n \in cols |-> t.rows[i].val[from(n)]]]]]

\* transform() (lines 177-199); dropna raises KeyError when there is no tas
\* column, after self.dataframe was replaced by the projection
transform ==
    /\ pc = "extracted"
    /\ original_df' = IF keep_original THEN dataframe ELSE original_df
    /\ LET intersect_columns == dataframe.columns \cap DOMAIN mapping
           projected == Project(dataframe, intersect_columns)
       IN  IF hourly /\ "tas" \notin intersect_columns
           THEN /\ dataframe' = projected
                /\ pc' = "failed"
                /\ err' = "KeyError tas"
           ELSE /\ dataframe' = Rename(IF hourly THEN dropna(projected, "tas")
                                       ELSE projected, mapping)
                /\ pc' = "transformed"
                /\ err' = err
    /\ UNCHANGED <<hourly, grid_blueprint, keep_original, meta_data, files, nread,
                   quota, raw, df, hourly_df, hourly_temp_arrays, all_hours,
                   outfile, tas_arg, tas_df>>

\* ------------------------------------------------------------------- load
\* lines 203-231: what stops the construction of the dataset, "none" if
\* nothing does.  Scalar mode reads the tas column, then the latitude and the
\* longitude of the metadata; grid mode opens the blueprint, reads the tas
\* column and needs an 8x8 array in each of its cells for the three
\* dimensions (time, lat, lon).
DatasetError ==
    IF hourly
    THEN IF "tas" \notin dataframe.columns THEN "KeyError tas"
         ELSE IF ~({"latitude", "longitude"} \subseteq meta_data)
              THEN "KeyError latitude"
         ELSE "none"
    ELSE IF grid_blueprint = "None" THEN "no grid blueprint"
         ELSE IF "tas" \notin dataframe.columns THEN "KeyError tas"
         ELSE IF dataframe.kind["tas"] # "array" THEN "ValueError dimensions"
         ELSE "none"

\* lines 239-240: os.remove of an existing file
Removed(file) == IF file = "absent" THEN "absent" ELSE "removed"

\* load() with the removal of the existing file moved to its first line
load_remove_first ==
    /\ pc = "transformed"
    /\ IF DatasetError # "none"
       THEN /\ pc' = "failed"
            /\ err' = DatasetError
            /\ outfile' = Removed(outfile)
       ELSE \E written \in BOOLEAN :
            /\ pc' = IF written THEN "loaded" ELSE "failed"
            /\ err' = IF written THEN err ELSE "IOError"
            /\ outfile' = IF written THEN "new" ELSE Removed(outfile)
    /\ UNCHANGED <<hourly, grid_blueprint, keep_original, meta_data, files,
                   dataframe, original_df, nread, quota, raw, df, hourly_df,
                   hourly_temp_arrays, all_hours, tas_arg, tas_df>>

\* load() (lines 202-244); to_netcdf can fail on the file system
load ==
    /\ pc = "transformed"
    /\ IF DatasetError # "none"
       THEN /\ pc' = "failed"
            /\ err' = DatasetError
            /\ outfile' = outfile
       ELSE \E written \in BOOLEAN :
            /\ pc' = IF written THEN "loaded" ELSE "failed"
            /\ err' = IF written THEN err ELSE "IOError"
            /\ outfile' = IF written THEN "new" ELSE Removed(outfile)
    /\ UNCHANGED <<hourly, grid_blueprint, keep_original, meta_data, files,
                   dataframe, original_df, nread, quota, raw, df, hourly_df,
                   hourly_temp_arrays, all_hours, tas_arg, tas_df>>

\* ---------------------------------------------------- transform_df_to_tas
\* the conversion back without the fraction of the offset
K_to_C_whole(k) == IF k = NaN THEN NaN ELSE k - Dec(273, 0)

\* line 265: K - 273.15
K_to_C(k) == IF k = NaN THEN NaN ELSE k - KelvinOffset

\* line 266: round(digits), NaN stays NaN
Round(v, digits) ==
    IF v = NaN THEN NaN
    ELSE RoundDiv(v, Pow10(FracDigits - digits)) * Pow10(FracDigits - digits)

\* line 268: fillna(-999.99)
fillna(v) == IF v = NaN THEN Sentinel ELSE v

\* lines 262-268 on a table that has the sensor column and the tas column
ToTas(t) ==
    LET cols == t.columns \ {"tas"}
        cell(row, c) == IF c = tas_sensor THEN K_to_C(row.val["tas"]) ELSE row.val[c]
    IN  [columns |-> cols,
         kind |-> [c \in cols |-> "float"],
         rows |-> [i \in 1..Len(t.rows) |->
                     [time |-> t.rows[i].time,
                      val |-> [c \in cols |->
                                 fillna(Round(cell(t.rows[i], c), digit_precision))]]]]

\* transform_df_to_tas(df) (lines 260-269) on a table the object holds:
\* drop(columns=[sensor]) raises KeyError when the table has no sensor
\* column, and df[sensor] does when it had no tas column to rename
transform_df_to_tas ==
    /\ pc \in {"extracted", "transformed"}
    /\ \E t \in {dataframe} \cup (IF keep_original THEN {original_df} ELSE {}) :
         /\ tas_arg' = t
         /\ IF tas_sensor \notin t.columns \/ "tas" \notin t.columns
            THEN /\ tas_df' = tas_df
                 /\ pc' = "failed"
                 /\ err' = "KeyError " \o tas_sensor
            ELSE /\ tas_df' = ToTas(t)
                 /\ pc' = "exported"
                 /\ err' = err
    /\ UNCHANGED <<hourly, grid_blueprint, keep_original, meta_data, files,
                   dataframe, original_df, nread, quota, raw, df, hourly_df,
                   hourly_temp_arrays, all_hours, outfile>>

Next == extract_begin \/ extract_file \/ transform \/ load \/ transform_df_to_tas

\* execute() and a later transform_df_to_tas, from a station with complete
\* metadata and a grid blueprint
Spec == Init /\ [][Next]_vars

\* the same from any configuration
SpecExec == InitExec /\ [][Next]_vars

\* ================================================================ claims
\* what the lines of the file read last say, read off the file itself
RawCell(r, c) == IF c = "tas" THEN r[tas_sensor] ELSE r[c]
RawMissing(r, c) == RawCell(r, c) = Sentinel
RawValue(r, c) == IF c = "tas" THEN r[tas_sensor] + KelvinOffset ELSE r[c]
RawHours == {raw[i].hour : i \in 1..Len(raw)}
MinOf(S) == CHOOSE x \in S : \A y \in S : x <= y
MaxOf(S) == CHOOSE x \in S : \A y \in S : y <= x

RECURSIVE RawSum(_, _)
RawSum(I, c) ==
    IF I = {} THEN 0
    ELSE LET i == CHOOSE j \in I : TRUE
         IN  RawValue(raw[i], c) + RawSum(I \ {i}, c)

C3_GridUnderTas ==
    (~hourly /\ pc = "transformed" /\ Len(dataframe.rows) > 0) =>
        /\ "tas" \in dataframe.columns
        /\ dataframe.kind["tas"] = "array"
        /\ \A k \in 1..Len(dataframe.rows) :
             \E a \in 1..Len(hourly_df.rows) :
                /\ hourly_df.rows[a].time = dataframe.rows[k].time
                /\ dataframe.rows[k].val["tas"] = hourly_df.rows[a].val["temp"]

\* C4 (as claimed, read in scalar mode): the table extract() returns has one
\* row per calendar hour, in ascending order of time, whatever files the
\* readings came from.
C4_OneRowPerHour ==
    (hourly /\ pc = "extracted") =>
        \A i \in 1..Len(dataframe.rows) : \A j \in 1..Len(dataframe.rows) :
            i < j => dataframe.rows[i].time < dataframe.rows[j].time

\* C5 (as claimed): grid mode: the rows after extract() and transform() are
\* the hours H0, H0+1, ..., Hn of the span of all readings, one row each.
C5_ContiguousAxis ==
    (~hourly /\ pc = "transformed" /\ all_hours # {}) =>
        /\ Len(dataframe.rows) = MaxOf(all_hours) - MinOf(all_hours) + 1
        /\ \A k \in 1..Len(dataframe.rows) :
             dataframe.rows[k].time = MinOf(all_hours) + k - 1

\* the k-th element of a finite set of integers, in ascending order
Nth(S, k) == CHOOSE x \in S : Cardinality({y \in S : y <= x}) = k

C7_MetadataOptional ==
    ~({"latitude", "longitude", "elevation"} \subseteq meta_data) =>
        err # "KeyError latitude"

Called == pc = "exported" \/ (pc = "failed" /\ err = "KeyError " \o tas_sensor)

\* what the claim says of the table transform_df_to_tas returns
TasResult ==
    /\ tas_df.columns = tas_arg.columns \ {"tas"}
    /\ Len(tas_df.rows) = Len(tas_arg.rows)
    /\ \A i \in 1..Len(tas_arg.rows) :
         LET k == tas_arg.rows[i].val["tas"]
             v == tas_df.rows[i].val[tas_sensor]
             step == Pow10(FracDigits - digit_precision)
         IN  /\ tas_df.rows[i].time = tas_arg.rows[i].time
             /\ IF k = NaN THEN v = Sentinel
                ELSE /\ v % step = 0
                     /\ 2 * Abs(v - (k - KelvinOffset)) <= step

\* C8 (as claimed, read in scalar mode): transform_df_to_tas succeeds on
\* every table in the canonical schema that has a tas column, such as the
\* one transform() produces, and returns the sensor column computed from tas.
C8_ExportCanonical ==
    (hourly /\ Called /\ "tas" \in tas_arg.columns
            /\ tas_arg.columns \subseteq DOMAIN mapping)
        => (pc = "exported" /\ TasResult)

\* C8 (amended): transform_df_to_tas succeeds exactly on the tables that have
\* both the sensor column and the tas column, and then returns the table
\* with the sensor column in place of tas, each value the tas value minus
\* 273.15 rounded to 2 decimals, each NaN replaced by -999.99.
C8_ExportPreProjection ==
    Called =>
        /\ pc = "exported" <=> {tas_sensor, "tas"} \subseteq tas_arg.columns
        /\ pc = "exported" => TasResult

\* a mean that is not at two decimals was converted back and rounded
C8_Witness ==
    /\ pc = "exported"
    /\ \E i \in 1..Len(tas_arg.rows) :
         /\ tas_arg.rows[i].val["tas"] # NaN
         /\ tas_df.rows[i].val[tas_sensor] # tas_arg.rows[i].val["tas"] - KelvinOffset

C10_ConfigFailureKeepsFile ==
    /\ err \in {"no grid blueprint", "KeyError tas"} => outfile \in {"absent", "old"}
    /\ outfile \in {"removed", "new"} => (pc = "loaded" \/ err = "IOError")
    /\ pc \notin {"loaded", "failed"} => outfile \in {"absent", "old"}

\* grid mode without a blueprint failed and the old output file is there
C10_Witness ==
    /\ pc = "failed"
    /\ err = "no grid blueprint"
    /\ outfile = "old"

====
